---- MODULE Spec2Model ----
(***************************************************************************)
(* A model of bot.py, the Telegram weather bot: the per-user conversation  *)
(* state machine (context.user_data), the in-memory store                  *)
(* user_data_storage and its JSON file user_data.json.                     *)
(*                                                                         *)
(* One update is handled at a time (the Application is built without       *)
(* concurrent_updates and requests.get blocks the event loop), so every    *)
(* handler is one atomic action.  A handler is translated into the         *)
(* sequence of effects it performs, in the order of the code, and the      *)
(* action executes that sequence.                                          *)
(*                                                                         *)
(* The button labels of the source are Cyrillic; strings here are ASCII    *)
(* transliterations with the same number of whitespace-separated tokens.   *)
(***************************************************************************)
EXTENDS Integers, Sequences, FiniteSets, TLC

-----------------------------------------------------------------------------
(* Bounds of the model *)
\* the number of updates run_polling() delivers in a run
MaxUpdates == 3
\* the last reading of the clock
MaxClock == 2
\* the number of updates delivered within one reading of the clock
MaxWrites == 4
\* the longest history get_yesterday_weather is called on
MaxHistory == 3
\* the longest entry list the forecast endpoint answers with
MaxEntries == 7
\* the temperatures format_now_message is called on: -MaxTemp .. MaxTemp
MaxTemp == 30

(* Two clock readings fall on each calendar day *)
TicksPerDay == 2

\* the user ids (update.effective_user.id)
Users == {1, 2}

-----------------------------------------------------------------------------
(* Python values *)

\* None, as returned by dict.get and by the Optional[...] functions
None == "<None>"
\* get_weather_now returning None
NoneData == [city |-> None, temp |-> 0, desc |-> None]
\* an empty dict
EmptyDict == <<>>

\* truthiness of an Optional[str]
Truthy(v) == v \notin {None, ""}

\* dict.get(key) and dict.get(key, default)
Get(d, k) == IF k \in DOMAIN d THEN d[k] ELSE None
GetOr(d, k, dflt) == IF k \in DOMAIN d THEN d[k] ELSE dflt

\* d[k] = v
Put(d, k, v) == (k :> v) @@ d

-----------------------------------------------------------------------------
(* Message texts *)

BTN_WEATHER == "* Pogoda"
BTN_COMPARE == "* Sravnit pogodu"
BTN_STATS == "* Statistika"
BTN_EXPORT == "* Eksport CSV"
BTN_SET_CITY == "* Ustanovit gorod"
BTN_DEFAULT_CITY == "Gorod po umolchaniyu"
BTN_NEW_CITY == "Novyj gorod"
BTN_BACK == "<- Nazad"
BTN_NOW == "Sejchas"
BTN_YESTERDAY == "Vchera"
BTN_5_DAYS == "Na 5 dnej"

MAIN_MENU == {BTN_WEATHER, BTN_COMPARE, BTN_STATS, BTN_EXPORT, BTN_SET_CITY}

Buttons ==
  MAIN_MENU \cup {BTN_DEFAULT_CITY, BTN_NEW_CITY, BTN_BACK,
                  BTN_NOW, BTN_YESTERDAY, BTN_5_DAYS}

\* the texts a user sends: the buttons, commands, a text that starts with the
\* command marker without being a command, locations, a padded location, a
\* pair of locations
RawTexts ==
  Buttons \cup {"/start", "/help", "/ x", "Paris", "Oslo", " Paris ", "Paris Oslo"}

\* the locations the weather provider can resolve
KnownCities == {"Paris", "Oslo"}

\* str.strip()
strip(raw) == IF raw = " Paris " THEN "Paris" ELSE raw

\* str.split(): the whitespace-separated tokens
split(text) ==
  CASE text = BTN_WEATHER -> <<"*", "Pogoda">>
    [] text = BTN_COMPARE -> <<"*", "Sravnit", "pogodu">>
    [] text = BTN_STATS -> <<"*", "Statistika">>
    [] text = BTN_EXPORT -> <<"*", "Eksport", "CSV">>
    [] text = BTN_SET_CITY -> <<"*", "Ustanovit", "gorod">>
    [] text = BTN_DEFAULT_CITY -> <<"Gorod", "po", "umolchaniyu">>
    [] text = BTN_NEW_CITY -> <<"Novyj", "gorod">>
    [] text = BTN_BACK -> <<"<-", "Nazad">>
    [] text = BTN_5_DAYS -> <<"Na", "5", "dnej">>
    [] text = "/ x" -> <<"/", "x">>
    [] text = "Paris Oslo" -> <<"Paris", "Oslo">>
    [] OTHER -> <<text>>

\* str.startswith("/")
startswith_slash(text) == text \in {"/start", "/help", "/ x"}

\* Telegram marks a leading "/name" as a bot_command entity; "/ x" has none
HasCommandEntity(raw) == raw \in {"/start", "/help"}
CommandName(raw) == IF raw = "/start" THEN "start" ELSE "help"

\* filters.TEXT & ~filters.COMMAND
filters_TEXT_not_COMMAND(raw) == ~HasCommandEntity(raw)
\* CommandHandler("start", ...).check_update
CommandHandler_matches(cmd, raw) == HasCommandEntity(raw) /\ CommandName(raw) = cmd

-----------------------------------------------------------------------------
(* The weather provider *)

\* a request fails (network, timeout, status, payload) or yields a reading
ProviderFailure == [ok |-> FALSE, temp |-> 0, desc |-> None]
ProviderReadings ==
  {[ok |-> TRUE, temp |-> 5, desc |-> "yasno"],
   [ok |-> TRUE, temp |-> 25, desc |-> "dozhd"]}
ProviderResponses == {ProviderFailure} \cup ProviderReadings

\* get_weather_now(city), given what the provider answers to the request
get_weather_now(city, resp) ==
  IF resp.ok /\ city \in KnownCities
    THEN [city |-> city, temp |-> resp.temp, desc |-> resp.desc]
    ELSE NoneData

-----------------------------------------------------------------------------
(* The clock *)

\* datetime.now().isoformat()[:10], the date part of a timestamp
DateOf(ts) == ts \div TicksPerDay

-----------------------------------------------------------------------------
(* The forecast *)

\* the forecast request fails, or yields data["list"]: entries with the time
\* dt, the temperature and the description
ForecastFailure == [ok |-> FALSE, list |-> <<>>]
ForecastOf(list) == [ok |-> TRUE, list |-> list]
ForecastEntry(dt, temp, desc) == [dt |-> dt, temp |-> temp, desc |-> desc]

\* the Optional[list] get_5_day_forecast returns
NoneForecast == [none |-> TRUE, days |-> <<>>]
SomeForecast(days) == [none |-> FALSE, days |-> days]
\* truthiness of an Optional[list]
TruthyList(r) == ~r.none /\ r.days # <<>>

\* for item in data["list"], from position i on, with the dict days so far (in
\* insertion order); the loop breaks once days holds 5 dates
RECURSIVE ForecastLoop(_, _, _)
ForecastLoop(list, i, days) ==
  IF i > Len(list) THEN days
  ELSE LET date == DateOf(list[i].dt)
           d1 == IF \E k \in 1..Len(days) : days[k].date = date THEN days
                 ELSE Append(days, [date |-> date, temp |-> list[i].temp,
                                    desc |-> list[i].desc])
       IN  IF Len(d1) >= 5 THEN d1 ELSE ForecastLoop(list, i + 1, d1)

\* get_5_day_forecast that takes every entry for a day
get_5_day_forecast_every_entry(city, fc) ==
  IF fc.ok /\ city \in KnownCities
    THEN SomeForecast([i \in 1..(IF Len(fc.list) < 5 THEN Len(fc.list) ELSE 5) |->
                         [date |-> DateOf(fc.list[i].dt), temp |-> fc.list[i].temp,
                          desc |-> fc.list[i].desc]])
    ELSE NoneForecast

\* get_5_day_forecast(city), given what the provider answers to the request
get_5_day_forecast(city, fc) ==
  IF fc.ok /\ city \in KnownCities
    THEN LET days == ForecastLoop(fc.list, 1, <<>>)
         IN  SomeForecast(SubSeq(days, 1, IF Len(days) < 5 THEN Len(days) ELSE 5))
    ELSE NoneForecast

-----------------------------------------------------------------------------
(* The report of a reading *)

\* the descriptions of the provider; "dozhd" (rain), "liven" (shower) and
\* "sneg" (snow) are the substrings format_now_message looks for
Descriptions == {"yasno", "dozhd", "silnyj liven", "sneg", "sneg s dozhdem"}
Mentions(desc, word) ==
  CASE word = "dozhd" -> desc \in {"dozhd", "sneg s dozhdem"}
    [] word = "liven" -> desc = "silnyj liven"
    [] word = "sneg" -> desc \in {"sneg", "sneg s dozhdem"}

\* the sentences of the advice
ADVICE_LIGHT_CLOTHING == "light clothing"
ADVICE_LIGHT_JACKET == "light jacket"
ADVICE_JACKET_OR_COAT == "jacket or coat"
ADVICE_WARM_COAT == "warm coat"
ADVICE_SEVERE_COLD == "severe cold"
ADVICE_UMBRELLA == "umbrella"
ADVICE_WATERPROOF == "waterproof shoes"

\* format_now_message with open lower boundaries
format_now_message_above(data) ==
  LET t == data.temp
      a1 == IF t > 25 THEN <<ADVICE_LIGHT_CLOTHING>>
            ELSE IF t > 15 THEN <<ADVICE_LIGHT_JACKET>>
            ELSE IF t > 5 THEN <<ADVICE_JACKET_OR_COAT>>
            ELSE IF t > -5 THEN <<ADVICE_WARM_COAT>>
            ELSE <<ADVICE_SEVERE_COLD>>
      a2 == IF Mentions(data.desc, "dozhd") \/ Mentions(data.desc, "liven")
              THEN Append(a1, ADVICE_UMBRELLA)
            ELSE IF Mentions(data.desc, "sneg") THEN Append(a1, ADVICE_WATERPROOF)
            ELSE a1
  IN  [city |-> data.city, temp |-> data.temp, desc |-> data.desc, advice |-> a2]

\* format_now_message(data): the fields of the report and the advice list
format_now_message(data) ==
  LET t == data.temp
      a1 == IF t >= 25 THEN <<ADVICE_LIGHT_CLOTHING>>
            ELSE IF t >= 15 THEN <<ADVICE_LIGHT_JACKET>>
            ELSE IF t >= 5 THEN <<ADVICE_JACKET_OR_COAT>>
            ELSE IF t >= -5 THEN <<ADVICE_WARM_COAT>>
            ELSE <<ADVICE_SEVERE_COLD>>
      a2 == IF Mentions(data.desc, "dozhd") \/ Mentions(data.desc, "liven")
              THEN Append(a1, ADVICE_UMBRELLA)
            ELSE IF Mentions(data.desc, "sneg") THEN Append(a1, ADVICE_WATERPROOF)
            ELSE a1
  IN  [city |-> data.city, temp |-> data.temp, desc |-> data.desc, advice |-> a2]

-----------------------------------------------------------------------------
(* The store user_data_storage and the file user_data.json *)

\* json.dump writes an int key as its decimal string, int(k) reads it back
DecimalStr == <<"1", "2", "3", "4">>
str(k) == DecimalStr[k]
int(s) == CHOOSE k \in DOMAIN DecimalStr : DecimalStr[k] = s

\* json.dump(user_data_storage, f): a JSON object keyed by strings
json_dump(storage) ==
  [s \in {str(k) : k \in DOMAIN storage} |-> storage[int(s)]]

\* {int(k): v for k, v in raw.items()}
json_load(obj) ==
  [k \in {int(s) : s \in DOMAIN obj} |-> obj[str(k)]]

\* the file: absent, unreadable as JSON, or a JSON object
MissingFile == [exists |-> FALSE, valid |-> FALSE, obj |-> EmptyDict]
CorruptFile == [exists |-> TRUE, valid |-> FALSE, obj |-> EmptyDict]
JsonFile(obj) == [exists |-> TRUE, valid |-> TRUE, obj |-> obj]

\* what can happen to a save: it succeeds, open() raises and the file is left
\* as it was, or the write raises after open(.., "w") has truncated the file
SaveOutcomes == {"ok", "open_fails", "write_fails"}

load_persistent_data(storage, f) ==
  IF f.exists /\ f.valid THEN json_load(f.obj) ELSE storage

save_persistent_data(storage, f, io) ==
  CASE io = "ok" -> JsonFile(json_dump(storage))
    [] io = "open_fails" -> f
    [] io = "write_fails" -> CorruptFile

get_default_city(storage, user_id) ==
  Get(GetOr(storage, user_id, EmptyDict), "default_city")

\* set_default_city that replaces the record of the user
with_default_city_replacing(storage, user_id, city) ==
  Put(storage, user_id, Put(EmptyDict, "default_city", city))

\* the dict operations of set_default_city, before the save
with_default_city(storage, user_id, city) ==
  LET s1 == IF user_id \in DOMAIN storage THEN storage
            ELSE Put(storage, user_id, EmptyDict)
  IN  [s1 EXCEPT ![user_id] = Put(@, "default_city", city)]

WeatherEvent(city, temp, desc, ts) ==
  [city |-> city, temp |-> temp, desc |-> desc, timestamp |-> ts]

\* set_default_city that keeps the change only when the save succeeded
set_default_city_if_saved(st, user_id, city, io) ==
  LET s == with_default_city(st.storage, user_id, city)
  IN  IF io = "ok"
        THEN [st EXCEPT !.storage = s, !.file = save_persistent_data(s, @, io)]
        ELSE st

\* set_default_city that reads the store back from the file before the change
set_default_city_from_file(st, user_id, city, io) ==
  LET s == with_default_city(load_persistent_data(st.storage, st.file), user_id, city)
  IN  [st EXCEPT !.storage = s, !.file = save_persistent_data(s, @, io)]

\* set_default_city on the store and the file; io is the outcome of the save
set_default_city(st, user_id, city, io) ==
  LET s == with_default_city(st.storage, user_id, city)
  IN  [st EXCEPT !.storage = s, !.file = save_persistent_data(s, @, io)]

\* the dict operations of add_to_history, before the save
with_history_record(storage, user_id, city, temp, desc, ts) ==
  LET s1 == IF user_id \in DOMAIN storage THEN storage
            ELSE Put(storage, user_id, EmptyDict)
      s2 == IF "history" \in DOMAIN s1[user_id] THEN s1
            ELSE [s1 EXCEPT ![user_id] = Put(@, "history", <<>>)]
  IN  [s2 EXCEPT ![user_id] =
         Put(@, "history", Append(s2[user_id]["history"], WeatherEvent(city, temp, desc, ts)))]

\* add_to_history without the save
add_to_history_unsaved(st, user_id, city, temp, desc, ts, io) ==
  [st EXCEPT !.storage = with_history_record(@, user_id, city, temp, desc, ts)]

\* add_to_history on the store and the file; io is the outcome of the save
add_to_history(st, user_id, city, temp, desc, ts, io) ==
  LET s == with_history_record(st.storage, user_id, city, temp, desc, ts)
  IN  [st EXCEPT !.storage = s, !.file = save_persistent_data(s, @, io)]

get_user_history(storage, user_id) ==
  GetOr(GetOr(storage, user_id, EmptyDict), "history", <<>>)

\* a history lookup returning None
NoneRecord == [city |-> None, temp |-> 0, desc |-> None, timestamp |-> 0]

\* for record in reversed(history): the first match from position i downwards
RECURSIVE ReverseScan(_, _, _, _)
ReverseScan(history, i, city, yesterday) ==
  IF i = 0 THEN NoneRecord
  ELSE IF history[i].city = city /\ DateOf(history[i].timestamp) = yesterday
    THEN history[i]
    ELSE ReverseScan(history, i - 1, city, yesterday)

\* get_yesterday_weather without the timedelta
get_yesterday_weather_today(storage, user_id, city, clock) ==
  LET history == get_user_history(storage, user_id)
  IN  ReverseScan(history, Len(history), city, DateOf(clock))

get_yesterday_weather(storage, user_id, city, clock) ==
  LET history == get_user_history(storage, user_id)
      yesterday == DateOf(clock) - 1
  IN  ReverseScan(history, Len(history), city, yesterday)

-----------------------------------------------------------------------------
(* The effects a handler performs, in program order *)

Reply(m) == [op |-> "reply", msg |-> m]
SetItem(k, v) == [op |-> "setitem", key |-> k, val |-> v]
Clear == [op |-> "clear"]
SetDefaultCity(c) == [op |-> "set_default_city", city |-> c]
AddToHistory(c, t, d) == [op |-> "add_to_history", city |-> c, temp |-> t, desc |-> d]

\* start that keeps the session
start_keeping_session == <<Reply("greeting")>>

\* start: context.user_data.clear(), then the greeting with the main menu
start == <<Clear, Reply("greeting")>>

\* unknown: the help reply
unknown == <<Reply("unknown")>>

\* send_weather_menu that does not record the location
send_weather_menu_without_city(city) ==
  <<SetItem("state", "choose_weather_type"), Reply("weather_menu")>>

send_weather_menu(city) ==
  <<SetItem("temp_city", city), SetItem("state", "choose_weather_type"),
    Reply("weather_menu")>>

show_stats(storage, user_id) ==
  IF get_user_history(storage, user_id) = <<>>
    THEN <<Reply("stats_empty")>>
    ELSE <<Reply("stats")>>

export_csv(storage, user_id) ==
  IF get_user_history(storage, user_id) = <<>>
    THEN <<Reply("export_empty")>>
    ELSE <<Reply("export_document")>>

\* handle_main_menu that never offers the default location
handle_main_menu_always_asks(storage, user_id, text) ==
  CASE text = BTN_WEATHER ->
         <<Reply("enter_city_prompt"), SetItem("state", "enter_city")>>
    [] text = BTN_SET_CITY ->
         <<Reply("set_default_prompt"), SetItem("state", "set_default_city")>>
    [] text = BTN_COMPARE ->
         <<Reply("compare_prompt"), SetItem("state", "compare_cities")>>
    [] text = BTN_STATS -> show_stats(storage, user_id)
    [] text = BTN_EXPORT -> export_csv(storage, user_id)
    [] OTHER -> unknown

\* handle_main_menu that offers the default location without looking for one
handle_main_menu_always_offers(storage, user_id, text) ==
  CASE text = BTN_WEATHER ->
         <<Reply("city_source_menu"), SetItem("state", "choose_city_source")>>
    [] text = BTN_SET_CITY ->
         <<Reply("set_default_prompt"), SetItem("state", "set_default_city")>>
    [] text = BTN_COMPARE ->
         <<Reply("compare_prompt"), SetItem("state", "compare_cities")>>
    [] text = BTN_STATS -> show_stats(storage, user_id)
    [] text = BTN_EXPORT -> export_csv(storage, user_id)
    [] OTHER -> unknown

handle_main_menu(storage, user_id, text) ==
  CASE text = BTN_WEATHER ->
         IF Truthy(get_default_city(storage, user_id))
           THEN <<Reply("city_source_menu"), SetItem("state", "choose_city_source")>>
           ELSE <<Reply("enter_city_prompt"), SetItem("state", "enter_city")>>
    [] text = BTN_SET_CITY ->
         <<Reply("set_default_prompt"), SetItem("state", "set_default_city")>>
    [] text = BTN_COMPARE ->
         <<Reply("compare_prompt"), SetItem("state", "compare_cities")>>
    [] text = BTN_STATS -> show_stats(storage, user_id)
    [] text = BTN_EXPORT -> export_csv(storage, user_id)
    [] OTHER -> unknown

\* the tail shared by the terminal branches: clear the session, show the menu
BackToMenu == <<Clear, Reply("main_menu")>>

\* set_default_city state that stores the text without looking at the fetch
on_set_default_city_unvalidated(text, env) ==
  <<SetDefaultCity(text), Reply("default_city_set")>> \o BackToMenu

\* state == "set_default_city"
on_set_default_city(text, env) ==
  (IF get_weather_now(text, env.r1) # NoneData
     THEN <<SetDefaultCity(text), Reply("default_city_set")>>
     ELSE <<Reply("city_not_found")>>) \o BackToMenu

\* the validation fetch of enter_city recorded in the history
on_enter_city_recording(text, env) ==
  LET data == get_weather_now(text, env.r1)
  IN  IF data # NoneData
        THEN <<AddToHistory(data.city, data.temp, data.desc),
               SetItem("temp_city", data.city), SetItem("state", "choose_weather_type"),
               Reply("weather_menu")>>
        ELSE <<Reply("city_not_found")>>

\* enter_city that gives up when the location is not found
on_enter_city_giving_up(text, env) ==
  LET data == get_weather_now(text, env.r1)
  IN  IF data # NoneData THEN send_weather_menu(data.city)
      ELSE <<Reply("city_not_found")>> \o BackToMenu

\* state == "enter_city"
on_enter_city(text, env) ==
  LET data == get_weather_now(text, env.r1)
  IN  IF data # NoneData THEN send_weather_menu(data.city)
      ELSE <<Reply("city_not_found")>>

\* state == "choose_city_source"
on_choose_city_source(storage, user_id, text) ==
  CASE text = BTN_BACK -> BackToMenu
    [] text = BTN_DEFAULT_CITY ->
         LET default == get_default_city(storage, user_id)
         IN  IF Truthy(default) THEN send_weather_menu(default)
             ELSE <<Reply("default_city_not_set")>> \o BackToMenu
    [] text = BTN_NEW_CITY ->
         <<Reply("enter_city_prompt"), SetItem("state", "enter_city")>>
    [] OTHER -> <<Reply("choose_from_menu")>>

\* choose_weather_type that returns after a failure without clearing the session
on_choose_weather_type_retrying(user_data, storage, user_id, text, env, clock) ==
  LET city == Get(user_data, "temp_city")
  IN  IF ~Truthy(city) THEN <<Reply("city_not_given")>> \o BackToMenu
      ELSE CASE text = BTN_BACK -> BackToMenu
             [] text = BTN_NOW ->
                  LET data == get_weather_now(city, env.r1)
                  IN  IF data # NoneData
                        THEN <<Reply("now_report"),
                               AddToHistory(data.city, data.temp, data.desc)>> \o BackToMenu
                        ELSE <<Reply("now_failed")>>
             [] text = BTN_YESTERDAY ->
                  IF get_yesterday_weather(storage, user_id, city, clock) # NoneRecord
                    THEN <<Reply("yesterday_report")>> \o BackToMenu
                    ELSE <<Reply("yesterday_not_in_archive")>>
             [] text = BTN_5_DAYS ->
                  IF TruthyList(get_5_day_forecast(city, env.fc))
                    THEN <<Reply("forecast_report")>> \o BackToMenu
                    ELSE <<Reply("forecast_failed")>>
             [] OTHER -> <<Reply("choose_from_menu")>>

\* state == "choose_weather_type"
on_choose_weather_type(user_data, storage, user_id, text, env, clock) ==
  LET city == Get(user_data, "temp_city")
  IN  IF ~Truthy(city) THEN <<Reply("city_not_given")>> \o BackToMenu
      ELSE CASE text = BTN_BACK -> BackToMenu
             [] text = BTN_NOW ->
                  LET data == get_weather_now(city, env.r1)
                  IN  (IF data # NoneData
                         THEN <<Reply("now_report"),
                                AddToHistory(data.city, data.temp, data.desc)>>
                         ELSE <<Reply("now_failed")>>) \o BackToMenu
             [] text = BTN_YESTERDAY ->
                  (IF get_yesterday_weather(storage, user_id, city, clock) # NoneRecord
                     THEN <<Reply("yesterday_report")>>
                     ELSE <<Reply("yesterday_not_in_archive")>>) \o BackToMenu
             [] text = BTN_5_DAYS ->
                  (IF TruthyList(get_5_day_forecast(city, env.fc))
                     THEN <<Reply("forecast_report")>>
                     ELSE <<Reply("forecast_failed")>>) \o BackToMenu
             [] OTHER -> <<Reply("choose_from_menu")>>

\* compare_cities that reports a failure only when both fetches fail
on_compare_cities_and(text, env) ==
  LET cities == split(text)
  IN  IF Len(cities) # 2 THEN <<Reply("two_cities_required")>>
      ELSE LET d1 == get_weather_now(cities[1], env.r1)
               d2 == get_weather_now(cities[2], env.r2)
           IN  (IF d1 = NoneData /\ d2 = NoneData
                  THEN <<Reply("one_city_not_found")>>
                  ELSE <<Reply("comparison")>>) \o <<Clear, Reply("main_menu")>>

\* state == "compare_cities"
on_compare_cities(text, env) ==
  LET cities == split(text)
  IN  IF Len(cities) # 2 THEN <<Reply("two_cities_required")>>
      ELSE LET d1 == get_weather_now(cities[1], env.r1)
               d2 == get_weather_now(cities[2], env.r2)
           IN  (IF d1 = NoneData \/ d2 = NoneData
                  THEN <<Reply("one_city_not_found")>>
                  ELSE <<Reply("comparison")>>) \o BackToMenu

handle_message(user_data, storage, user_id, raw, env, clock) ==
  LET text == strip(raw)
      state == Get(user_data, "state")
  IN  CASE state = "set_default_city" -> on_set_default_city(text, env)
        [] state = "enter_city" -> on_enter_city(text, env)
        [] state = "choose_city_source" -> on_choose_city_source(storage, user_id, text)
        [] state = "choose_weather_type" ->
             on_choose_weather_type(user_data, storage, user_id, text, env, clock)
        [] state = "compare_cities" -> on_compare_cities(text, env)
        [] OTHER -> handle_main_menu(storage, user_id, text)

unified_handler(user_data, storage, user_id, raw, env, clock) ==
  LET text == strip(raw)
  IN  IF startswith_slash(text)
        THEN (IF text = "/start" THEN start ELSE unknown)
        ELSE handle_message(user_data, storage, user_id, raw, env, clock)

-----------------------------------------------------------------------------
(* State *)

VARIABLES
  pc,                 \* "boot" before main() has loaded the file, then "polling"
  user_data_storage,  \* the global dict: user id -> {default_city?, history?}
  file,               \* user_data.json
  user_data,          \* context.user_data of every user: {state?, temp_city?}
  now,                \* the clock read by datetime.now()
  out,                \* the replies sent while handling the last update
  update_id,          \* the number of updates run_polling() has delivered
  call                \* a function of the module called on its own: its name,
                      \* its arguments and its return value

vars == <<pc, user_data_storage, file, user_data, now, out, update_id, call>>

\* stores written by earlier runs of the program: the first user with a
\* default location and one event; the first user with a default location
\* only and the second with two events of one day and no default location
SavedStore ==
  with_history_record(with_default_city(EmptyDict, 1, "Paris"), 1, "Paris", 5, "yasno", 0)

SavedStoreOfTwo ==
  with_history_record(
    with_history_record(with_default_city(EmptyDict, 1, "Oslo"), 2, "Paris", 5, "yasno", 0),
    2, "Paris", 25, "dozhd", 0)

InitFiles ==
  {MissingFile, CorruptFile, JsonFile(json_dump(SavedStore)),
   JsonFile(json_dump(SavedStoreOfTwo))}

NoOutput == [to |-> 0, msgs |-> <<>>, raised |-> FALSE]

\* no function is called on its own
NoCall == [fn |-> None]

\* the module has been imported: user_data_storage = {} and no session exists
Init ==
  /\ pc = "boot"
  /\ user_data_storage = EmptyDict
  /\ file \in InitFiles
  /\ user_data = [u \in Users |-> EmptyDict]
  /\ now = 0
  /\ out = NoOutput
  /\ update_id = 0
  /\ call = NoCall

-----------------------------------------------------------------------------
(* Executing the effects of a handler *)

\* effects where clear() drops the state tag only
Apply_clear_state_only(op, st, user_id, io, clock) ==
  CASE op.op = "reply" -> [st EXCEPT !.msgs = Append(@, op.msg)]
    [] op.op = "setitem" -> [st EXCEPT !.ud = Put(@, op.key, op.val)]
    [] op.op = "clear" ->
         [st EXCEPT !.ud = [k \in DOMAIN st.ud \ {"state"} |-> st.ud[k]]]
    [] op.op = "set_default_city" -> set_default_city(st, user_id, op.city, io)
    [] op.op = "add_to_history" ->
         add_to_history(st, user_id, op.city, op.temp, op.desc, clock, io)

\* one effect applied to the handler's view of the state; io is the outcome
\* of the save the effect makes
Apply(op, st, user_id, io, clock) ==
  CASE op.op = "reply" -> [st EXCEPT !.msgs = Append(@, op.msg)]
    [] op.op = "setitem" -> [st EXCEPT !.ud = Put(@, op.key, op.val)]
    [] op.op = "clear" -> [st EXCEPT !.ud = EmptyDict]
    [] op.op = "set_default_city" -> set_default_city(st, user_id, op.city, io)
    [] op.op = "add_to_history" ->
         add_to_history(st, user_id, op.city, op.temp, op.desc, clock, io)

\* the effects from position i on; the failAt-th reply raises and the
\* exception leaves the handler (failAt = 0: every reply is delivered)
RECURSIVE Exec(_, _, _, _, _, _, _)
Exec(ops, i, st, user_id, io, clock, failAt) ==
  IF i > Len(ops) THEN st
  ELSE IF ops[i].op = "reply" /\ Len(st.msgs) + 1 = failAt
    THEN [st EXCEPT !.raised = TRUE]
    ELSE Exec(ops, i + 1, Apply(ops[i], st, user_id, io, clock), user_id, io, clock, failAt)

Run(ops, user_id, io, failAt) ==
  Exec(ops, 1,
       [ud |-> user_data[user_id], storage |-> user_data_storage, file |-> file,
        msgs |-> <<>>, raised |-> FALSE],
       user_id, io, now, failAt)

\* a forecast of two days, the first with two entries
SampleForecast ==
  ForecastOf(<<ForecastEntry(0, 5, "yasno"), ForecastEntry(1, 25, "dozhd"),
               ForecastEntry(TicksPerDay, 25, "dozhd")>>)

\* a handler that keeps its session in data shared by all users
Commit_shared_session(st, user_id) ==
  /\ user_data' = [v \in Users |-> st.ud]
  /\ user_data_storage' = st.storage
  /\ file' = st.file
  /\ out' = [to |-> user_id, msgs |-> st.msgs, raised |-> st.raised]
  /\ UNCHANGED <<pc, now, call>>

\* the state after a handler has run
Commit(st, user_id) ==
  /\ user_data' = [user_data EXCEPT ![user_id] = st.ud]
  /\ user_data_storage' = st.storage
  /\ file' = st.file
  /\ out' = [to |-> user_id, msgs |-> st.msgs, raised |-> st.raised]
  /\ UNCHANGED <<pc, now, call>>

\* the handler python-telegram-bot picks for a message: the first of the
\* two registered handlers whose filter accepts it
Handler(raw) ==
  IF CommandHandler_matches("start", raw) THEN "start"
  ELSE IF filters_TEXT_not_COMMAND(raw) THEN "unified_handler"
  ELSE "none"

\* the provider answers and the save outcome an update can meet: r1 and r2
\* answer the first and the second request for current weather, fc the
\* request for the forecast, io is the outcome of the save.  A request for a
\* place the provider does not know fails, and nothing is saved unless the
\* first request yields a reading.
Env(ud, raw) ==
  LET state == Get(ud, "state")
      text == strip(raw)
      cities == split(text)
      pair == state = "compare_cities" /\ Len(cities) = 2
      first == IF state \in {"set_default_city", "enter_city"} THEN text
               ELSE IF state = "choose_weather_type" /\ text = BTN_NOW
                 THEN Get(ud, "temp_city")
               ELSE IF pair THEN cities[1]
               ELSE None
      saves == \/ state = "set_default_city"
               \/ state = "choose_weather_type" /\ text = BTN_NOW
  IN  {e \in [r1 : IF first \in KnownCities THEN ProviderResponses ELSE {ProviderFailure},
              r2 : IF pair /\ cities[2] \in KnownCities
                     THEN ProviderResponses ELSE {ProviderFailure},
              fc : IF state = "choose_weather_type" /\ text = BTN_5_DAYS
                     THEN {ForecastFailure, SampleForecast} ELSE {ForecastFailure},
              io : IF saves THEN SaveOutcomes ELSE {"ok"}] :
         ~e.r1.ok => e.io = "ok"}

\* run_polling() delivers the next update
NextUpdate ==
  /\ pc = "polling"
  /\ update_id < MaxUpdates
  /\ update_id' = update_id + 1

\* Application.process_update: the state the chosen handler leaves when
\* update (u, raw) is handled in the current state and every reply is delivered
process_update(u, raw, env) ==
  CASE Handler(raw) = "start" -> Run(start, u, "ok", 0)
    [] Handler(raw) = "unified_handler" ->
         Run(unified_handler(user_data[u], user_data_storage, u, raw, env, now),
             u, env.io, 0)
    [] OTHER -> Run(<<>>, u, "ok", 0)

\* the provider and the save play no part in an update
NoEnv ==
  [r1 |-> ProviderFailure, r2 |-> ProviderFailure, fc |-> ForecastFailure, io |-> "ok"]

-----------------------------------------------------------------------------
(* Actions *)

\* main(): load_persistent_data(), register the handlers, run_polling()
Main ==
  /\ pc = "boot"
  /\ pc' = "polling"
  /\ user_data_storage' = load_persistent_data(user_data_storage, file)
  /\ UNCHANGED <<file, user_data, now, out, update_id, call>>

\* CommandHandler("start", start)
StartCommand(u, raw) ==
  /\ NextUpdate
  /\ Handler(raw) = "start"
  /\ Commit(process_update(u, raw, NoEnv), u)

\* MessageHandler(filters.TEXT & ~filters.COMMAND, unified_handler)
TextMessage(u, raw, env) ==
  /\ NextUpdate
  /\ Handler(raw) = "unified_handler"
  /\ Commit(process_update(u, raw, env), u)

\* a message no registered handler accepts is dropped
Unhandled(u, raw) ==
  /\ NextUpdate
  /\ Handler(raw) = "none"
  /\ Commit(process_update(u, raw, NoEnv), u)

\* time passes
Tick ==
  /\ now < MaxClock
  /\ now' = now + 1
  /\ UNCHANGED <<pc, user_data_storage, file, user_data, out, update_id, call>>

Next ==
  \/ Main
  \/ \E u \in Users, raw \in RawTexts : StartCommand(u, raw)
  \/ \E u \in Users, raw \in RawTexts : \E env \in Env(user_data[u], raw) :
       TextMessage(u, raw, env)
  \/ \E u \in Users, raw \in RawTexts : Unhandled(u, raw)
  \/ Tick

Spec == Init /\ [][Next]_vars

\* a reply call raises (telegram.error) and the exception leaves the handler;
\* the Application logs it and goes on with the next update
HandlerRaises(u, raw, env, k) ==
  /\ NextUpdate
  /\ Handler(raw) # "none"
  /\ LET ops == IF Handler(raw) = "start" THEN start
                ELSE unified_handler(user_data[u], user_data_storage, u, raw, env, now)
         st == Run(ops, u, env.io, k)
     IN  /\ st.raised
         /\ Commit(st, u)

NextFault ==
  \/ Next
  \/ \E u \in Users, raw \in RawTexts : \E env \in Env(user_data[u], raw), k \in 1..2 :
       HandlerRaises(u, raw, env, k)

\* the program with a gateway that can fail to deliver
SpecFault == Init /\ [][NextFault]_vars

\* run_polling() delivers an update while the clock stands still
Deliver(u, raw, env) ==
  /\ pc = "polling"
  /\ update_id < MaxWrites
  /\ update_id' = update_id + 1
  /\ Commit(process_update(u, raw, env), u)

NextWriters ==
  \/ Main
  \/ \E u \in Users, raw \in RawTexts : \E env \in Env(user_data[u], raw) :
       Deliver(u, raw, env)

\* the program handling a burst of updates
SpecWriters == Init /\ [][NextWriters]_vars

-----------------------------------------------------------------------------
(* Functions called on their own *)

\* the histories add_to_history can have built by the reading MaxClock: events
\* of resolved locations in the order of their timestamps
Events ==
  {WeatherEvent(c, r.temp, r.desc, ts) :
     c \in KnownCities, r \in ProviderReadings, ts \in 0..MaxClock}
Histories ==
  UNION {{h \in [1..n -> Events] :
            \A i \in 1..(n - 1) : h[i].timestamp <= h[i + 1].timestamp} :
         n \in 0..MaxHistory}

\* the store in which one user has the history h
StoreOf(user_id, h) ==
  IF h = <<>> THEN EmptyDict
  ELSE Put(EmptyDict, user_id, Put(EmptyDict, "history", h))

\* the running program at a call of get_yesterday_weather(user_id, city)
InitYesterday ==
  /\ pc = "polling"
  /\ \E h \in Histories :
       /\ user_data_storage = StoreOf(1, h)
       /\ now \in {t \in 0..MaxClock : h # <<>> => h[Len(h)].timestamp <= t}
  /\ file = MissingFile
  /\ user_data = [u \in Users |-> EmptyDict]
  /\ out = NoOutput
  /\ update_id = 0
  /\ \E c \in KnownCities :
       call = [fn |-> "get_yesterday_weather", user_id |-> 1, city |-> c,
               returned |-> FALSE, ret |-> NoneRecord]

Return_get_yesterday_weather ==
  /\ call.fn = "get_yesterday_weather"
  /\ ~call.returned
  /\ call' = [call EXCEPT !.returned = TRUE, !.ret =
                 get_yesterday_weather(user_data_storage, call.user_id, call.city, now)]
  /\ UNCHANGED <<pc, user_data_storage, file, user_data, now, out, update_id>>

SpecYesterday == InitYesterday /\ [][Return_get_yesterday_weather]_vars

\* the time of entry i when entry k comes steps[k] after the one before it
RECURSIVE TimeOfEntry(_, _)
TimeOfEntry(steps, i) == IF i = 0 THEN 0 ELSE TimeOfEntry(steps, i - 1) + steps[i]

\* the time-ordered entry lists of the provider: an entry comes at the time
\* of the one before it, one reading later or one day later; the temperature
\* of an entry is its position, so that no two entries carry the same values
ForecastLists ==
  UNION {{[i \in 1..n |-> ForecastEntry(TimeOfEntry(steps, i), i, "yasno")] :
            steps \in [1..n -> {0, 1, TicksPerDay}]} :
         n \in 0..MaxEntries}

\* the program at a call of get_5_day_forecast(city)
InitForecast ==
  /\ pc = "polling"
  /\ user_data_storage = EmptyDict
  /\ file = MissingFile
  /\ user_data = [u \in Users |-> EmptyDict]
  /\ now = 0
  /\ out = NoOutput
  /\ update_id = 0
  /\ \E fc \in {ForecastFailure} \cup {ForecastOf(l) : l \in ForecastLists} :
       call = [fn |-> "get_5_day_forecast", city |-> "Paris", fc |-> fc,
               returned |-> FALSE, ret |-> NoneForecast]

Return_get_5_day_forecast ==
  /\ call.fn = "get_5_day_forecast"
  /\ ~call.returned
  /\ call' = [call EXCEPT !.returned = TRUE,
                          !.ret = get_5_day_forecast(call.city, call.fc)]
  /\ UNCHANGED <<pc, user_data_storage, file, user_data, now, out, update_id>>

SpecForecast == InitForecast /\ [][Return_get_5_day_forecast]_vars

\* the program at a call of format_now_message(data)
InitAdvice ==
  /\ pc = "polling"
  /\ user_data_storage = EmptyDict
  /\ file = MissingFile
  /\ user_data = [u \in Users |-> EmptyDict]
  /\ now = 0
  /\ out = NoOutput
  /\ update_id = 0
  /\ \E t \in (-MaxTemp)..MaxTemp, d \in Descriptions :
       call = [fn |-> "format_now_message",
               data |-> [city |-> "Paris", temp |-> t, desc |-> d],
               returned |-> FALSE,
               ret |-> [city |-> None, temp |-> 0, desc |-> None, advice |-> <<>>]]

Return_format_now_message ==
  /\ call.fn = "format_now_message"
  /\ ~call.returned
  /\ call' = [call EXCEPT !.returned = TRUE, !.ret = format_now_message(call.data)]
  /\ UNCHANGED <<pc, user_data_storage, file, user_data, now, out, update_id>>

SpecAdvice == InitAdvice /\ [][Return_format_now_message]_vars

-----------------------------------------------------------------------------
(* Vocabulary of the properties *)

\* the state tag and the pending location of a session
StateOf(ud) == Get(ud, "state")
PendingOf(ud) == Get(ud, "temp_city")

\* the names the specification gives to the state tags
SpecState(ud) ==
  CASE StateOf(ud) = None -> "Idle"
    [] StateOf(ud) = "set_default_city" -> "AwaitingCityForSet"
    [] StateOf(ud) = "enter_city" -> "AwaitingCityForLookup"
    [] StateOf(ud) = "choose_city_source" -> "ChoosingCitySource"
    [] StateOf(ud) = "choose_weather_type" -> "ChoosingWeatherType"
    [] StateOf(ud) = "compare_cities" -> "AwaitingCityPairForCompare"
    [] OTHER -> "Undefined"

SpecStates ==
  {"Idle", "AwaitingCityForSet", "AwaitingCityForLookup", "ChoosingCitySource",
   "ChoosingWeatherType", "AwaitingCityPairForCompare"}

History(storage, u) == get_user_history(storage, u)
HasDefault(storage, u) == Truthy(get_default_city(storage, u))

IsPrefix(a, b) == Len(a) <= Len(b) /\ SubSeq(b, 1, Len(a)) = a

\* the texts that reach handle_message
PlainTexts == {raw \in RawTexts : ~startswith_slash(strip(raw))}

\* fetchCurrent(text) yields a reading under the provider answer resp
Found(text, resp) == get_weather_now(text, resp) # NoneData

\* The properties below that speak of one step are stated of
\* process_update(u, raw, env): the state in which the step that handles
\* update (u, raw) under the provider answers and save outcome env ends, from
\* the current state.  StartCommand, TextMessage and Unhandled commit exactly
\* that state, so a property of it in every reachable state is a property of
\* every step of the program.

-----------------------------------------------------------------------------
(* C1: the lookup scenario.  In Idle without a default location the weather *)
(* button yields the location prompt and AwaitingCityForLookup; there, a    *)
(* text whose fetch yields a reading leads to ChoosingWeatherType with that *)
(* text pending; there, "now" with a successful fetch appends exactly one   *)
(* event for the pending location to the user's history and returns to Idle *)
C1_LookupScenario ==
  pc = "polling" =>
    \A u \in Users :
      /\ (SpecState(user_data[u]) = "Idle" /\ ~HasDefault(user_data_storage, u)) =>
           \A env \in Env(user_data[u], BTN_WEATHER) :
             LET st == process_update(u, BTN_WEATHER, env)
             IN  /\ st.msgs = <<"enter_city_prompt">>
                 /\ SpecState(st.ud) = "AwaitingCityForLookup"
      /\ SpecState(user_data[u]) = "AwaitingCityForLookup" =>
           \A raw \in PlainTexts : \A env \in Env(user_data[u], raw) :
             Found(strip(raw), env.r1) =>
               LET st == process_update(u, raw, env)
               IN  /\ SpecState(st.ud) = "ChoosingWeatherType"
                   /\ PendingOf(st.ud) = strip(raw)
      /\ SpecState(user_data[u]) = "ChoosingWeatherType" =>
           \A env \in Env(user_data[u], BTN_NOW) :
             Found(PendingOf(user_data[u]), env.r1) =>
               LET st == process_update(u, BTN_NOW, env)
                   old == History(user_data_storage, u)
                   new == History(st.storage, u)
               IN  /\ Len(new) = Len(old) + 1
                   /\ IsPrefix(old, new)
                   /\ new[Len(new)].city = PendingOf(user_data[u])
                   /\ SpecState(st.ud) = "Idle"

\* a user without a default location has got the report of "now" and is back
\* in Idle with an event in the history
C1_Witness ==
  \E u \in Users :
    /\ out.to = u
    /\ out.msgs = <<"now_report", "main_menu">>
    /\ ~HasDefault(user_data_storage, u)
    /\ History(user_data_storage, u) # <<>>
    /\ SpecState(user_data[u]) = "Idle"

-----------------------------------------------------------------------------
(* C2: the compare scenario.  The compare button leads from Idle to         *)
(* AwaitingCityPairForCompare; there, a two-token text with an unresolvable *)
(* location yields the "one location not found" message and Idle; neither   *)
(* step, whatever the fetches return, changes the history of any user       *)
C2_CompareFailure ==
  pc = "polling" =>
    \A u \in Users :
      /\ SpecState(user_data[u]) = "Idle" =>
           \A env \in Env(user_data[u], BTN_COMPARE) :
             LET st == process_update(u, BTN_COMPARE, env)
             IN  /\ SpecState(st.ud) = "AwaitingCityPairForCompare"
                 /\ \A v \in Users :
                      History(st.storage, v) = History(user_data_storage, v)
      /\ SpecState(user_data[u]) = "AwaitingCityPairForCompare" =>
           \A raw \in PlainTexts : \A env \in Env(user_data[u], raw) :
             Len(split(strip(raw))) = 2 =>
               LET st == process_update(u, raw, env)
                   c1 == split(strip(raw))[1]
                   c2 == split(strip(raw))[2]
               IN  /\ \A v \in Users :
                        History(st.storage, v) = History(user_data_storage, v)
                   /\ (~Found(c1, env.r1) \/ ~Found(c2, env.r2)) =>
                        /\ st.msgs = <<"one_city_not_found", "main_menu">>
                        /\ st.ud = EmptyDict

\* a comparison has ended with the "one location not found" message
C2_Witness ==
  \E u \in Users :
    /\ out.to = u
    /\ out.msgs = <<"one_city_not_found", "main_menu">>
    /\ SpecState(user_data[u]) = "Idle"

-----------------------------------------------------------------------------
(* C3: the transition table of section 4.5.  Handling a text in a session   *)
(* ends in the one state the table gives for the state, the text, the       *)
(* presence of a default location and the outcome of the fetch, and that    *)
(* state is one of the six; a text starting with "/" leaves the state alone *)
(* unless it is /start, which leads to Idle                                  *)
TableNext(s, text, hasDefault, found) ==
  CASE s = "Idle" ->
         (CASE text = BTN_WEATHER ->
                 IF hasDefault THEN "ChoosingCitySource" ELSE "AwaitingCityForLookup"
            [] text = BTN_SET_CITY -> "AwaitingCityForSet"
            [] text = BTN_COMPARE -> "AwaitingCityPairForCompare"
            [] OTHER -> "Idle")
    [] s = "AwaitingCityForSet" -> "Idle"
    [] s = "AwaitingCityForLookup" ->
         IF found THEN "ChoosingWeatherType" ELSE "AwaitingCityForLookup"
    [] s = "ChoosingCitySource" ->
         (CASE text = BTN_BACK -> "Idle"
            [] text = BTN_DEFAULT_CITY -> IF hasDefault THEN "ChoosingWeatherType" ELSE "Idle"
            [] text = BTN_NEW_CITY -> "AwaitingCityForLookup"
            [] OTHER -> "ChoosingCitySource")
    [] s = "ChoosingWeatherType" ->
         IF text \in {BTN_BACK, BTN_NOW, BTN_YESTERDAY, BTN_5_DAYS}
           THEN "Idle" ELSE "ChoosingWeatherType"
    [] s = "AwaitingCityPairForCompare" ->
         IF Len(split(text)) = 2 THEN "Idle" ELSE "AwaitingCityPairForCompare"

C3_TransitionTable ==
  pc = "polling" =>
    \A u \in Users, raw \in RawTexts : \A env \in Env(user_data[u], raw) :
      LET text == strip(raw)
          next == SpecState(process_update(u, raw, env).ud)
      IN  /\ next \in SpecStates
          /\ next = IF startswith_slash(text)
                      THEN (IF text = "/start" THEN "Idle" ELSE SpecState(user_data[u]))
                      ELSE TableNext(SpecState(user_data[u]), text,
                                     HasDefault(user_data_storage, u),
                                     Found(text, env.r1))

\* a text that is not a pair has been answered by the reprompt and the
\* session is still waiting for the pair
C3_Witness ==
  \E u \in Users :
    /\ out.to = u
    /\ out.msgs = <<"two_cities_required">>
    /\ SpecState(user_data[u]) = "AwaitingCityPairForCompare"

-----------------------------------------------------------------------------
(* C4: a text that starts with "/" and is not "/start" is answered by the   *)
(* unknown-command help, in any session state, and leaves the sessions and  *)
(* the store as they were                                                    *)
C4_UnknownCommand ==
  pc = "polling" =>
    \A u \in Users, raw \in RawTexts :
      (startswith_slash(strip(raw)) /\ strip(raw) # "/start") =>
        LET st == process_update(u, raw, NoEnv)
        IN  /\ st.msgs = <<"unknown">>
            /\ st.ud = user_data[u]
            /\ st.storage = user_data_storage

-----------------------------------------------------------------------------
(* C5: the session is cleared, state tag Idle and no pending location,      *)
(* by /start in any state, by "back" in ChoosingCitySource and              *)
(* ChoosingWeatherType, and by every terminal branch: the result of         *)
(* set-default, of now / yesterday / 5-day and of a comparison              *)
Cleared(ud) == SpecState(ud) = "Idle" /\ PendingOf(ud) = None

C5_SessionCleared ==
  pc = "polling" =>
    \A u \in Users :
      /\ Cleared(process_update(u, "/start", NoEnv).ud)
      /\ SpecState(user_data[u]) \in {"ChoosingCitySource", "ChoosingWeatherType"} =>
           \A env \in Env(user_data[u], BTN_BACK) :
             Cleared(process_update(u, BTN_BACK, env).ud)
      /\ SpecState(user_data[u]) = "AwaitingCityForSet" =>
           \A raw \in PlainTexts : \A env \in Env(user_data[u], raw) :
             Cleared(process_update(u, raw, env).ud)
      /\ SpecState(user_data[u]) = "ChoosingWeatherType" =>
           \A raw \in {BTN_NOW, BTN_YESTERDAY, BTN_5_DAYS} :
             \A env \in Env(user_data[u], raw) :
               Cleared(process_update(u, raw, env).ud)
      /\ SpecState(user_data[u]) = "AwaitingCityPairForCompare" =>
           \A raw \in PlainTexts : \A env \in Env(user_data[u], raw) :
             Len(split(strip(raw))) = 2 =>
               Cleared(process_update(u, raw, env).ud)

\* a forecast has been reported and the session that held the pending
\* location is cleared
C5_Witness ==
  \E u \in Users :
    /\ out.to = u
    /\ out.msgs = <<"forecast_report", "main_menu">>
    /\ Cleared(user_data[u])

-----------------------------------------------------------------------------
(* C6: a history grows only in the step that handles "now" in               *)
(* ChoosingWeatherType with a successful fetch, by one event that carries   *)
(* the pending location and the temperature and description of the reading; *)
(* every other step leaves every history as it was                          *)
C6_HistoryFromFetch ==
  pc = "polling" =>
    \A u \in Users, raw \in RawTexts : \A env \in Env(user_data[u], raw) :
      LET st == process_update(u, raw, env)
          city == PendingOf(user_data[u])
      IN  IF /\ SpecState(user_data[u]) = "ChoosingWeatherType"
             /\ strip(raw) = BTN_NOW
             /\ Found(city, env.r1)
            THEN /\ History(st.storage, u) =
                      Append(History(user_data_storage, u),
                             WeatherEvent(city, env.r1.temp, env.r1.desc, now))
                 /\ \A v \in Users \ {u} :
                      History(st.storage, v) = History(user_data_storage, v)
            ELSE \A v \in Users :
                   History(st.storage, v) = History(user_data_storage, v)

\* the last event of a history is the reading just reported
C6_Witness ==
  \E u \in Users :
    /\ out.to = u
    /\ out.msgs = <<"now_report", "main_menu">>
    /\ History(user_data_storage, u) # <<>>
    /\ LET h == History(user_data_storage, u)
       IN  h[Len(h)] = WeatherEvent("Oslo", 25, "dozhd", now)

-----------------------------------------------------------------------------
(* C7: histories are append-only.  In every step of the running bot the     *)
(* history of every user before the step is a prefix of the history after   *)
(* it, and a history that changed has the appended event as last element    *)
C7_AppendOnly ==
  [][pc = "polling" =>
       \A u \in Users :
         LET old == History(user_data_storage, u)
             new == History(user_data_storage', u)
         IN  /\ IsPrefix(old, new)
             /\ new # old =>
                  \E c \in KnownCities, r \in ProviderReadings :
                    new = Append(old, WeatherEvent(c, r.temp, r.desc, now))
    ]_vars

\* an event has been appended to a history that held one
C7_Witness ==
  \E u \in Users : Len(History(user_data_storage, u)) >= 2

-----------------------------------------------------------------------------
(* C8: write-through round trip.  After a step that calls set_default_city  *)
(* or add_to_history and whose save succeeds, reloading the file yields the *)
(* in-memory store: the same users, default locations and histories         *)
Mutating(ops) ==
  \E i \in DOMAIN ops : ops[i].op \in {"set_default_city", "add_to_history"}

C8_WriteThrough ==
  pc = "polling" =>
    \A u \in Users :
      SpecState(user_data[u]) \in {"AwaitingCityForSet", "ChoosingWeatherType"} =>
        \A raw \in PlainTexts : \A env \in Env(user_data[u], raw) :
          (/\ env.io = "ok"
           /\ Mutating(unified_handler(user_data[u], user_data_storage, u, raw, env, now))) =>
            LET st == process_update(u, raw, env)
            IN  /\ st.file.exists /\ st.file.valid
                /\ load_persistent_data(EmptyDict, st.file) = st.storage

\* the second user has set a default location and the file holds the store
C8_Witness ==
  /\ out.to = 2
  /\ out.msgs = <<"default_city_set", "main_menu">>
  /\ HasDefault(user_data_storage, 2)
  /\ file.exists /\ file.valid
  /\ load_persistent_data(EmptyDict, file) = user_data_storage

-----------------------------------------------------------------------------
(* C9: persistence failures are not fatal.  main() ends with an empty store *)
(* when the file is missing or unreadable; a step whose save fails still    *)
(* keeps the change in memory, sends its normal replies and ends in its     *)
(* normal state                                                              *)
C9_SaveFailure ==
  pc = "polling" =>
    \A u \in Users :
      /\ SpecState(user_data[u]) = "AwaitingCityForSet" =>
           \A raw \in PlainTexts : \A env \in Env(user_data[u], raw) :
             (env.io # "ok" /\ Found(strip(raw), env.r1)) =>
               LET st == process_update(u, raw, env)
               IN  /\ st.msgs = <<"default_city_set", "main_menu">>
                   /\ ~st.raised
                   /\ Cleared(st.ud)
                   /\ get_default_city(st.storage, u) = strip(raw)
      /\ SpecState(user_data[u]) = "ChoosingWeatherType" =>
           \A env \in Env(user_data[u], BTN_NOW) :
             (env.io # "ok" /\ Found(PendingOf(user_data[u]), env.r1)) =>
               LET st == process_update(u, BTN_NOW, env)
               IN  /\ st.msgs = <<"now_report", "main_menu">>
                   /\ ~st.raised
                   /\ Cleared(st.ud)
                   /\ Len(History(st.storage, u)) = Len(History(user_data_storage, u)) + 1

\* the step of main()
C9_LoadFailure ==
  (pc = "boot" /\ pc' = "polling" /\ ~(file.exists /\ file.valid)) =>
    user_data_storage' = EmptyDict

C9_PersistenceFailures == [](C9_SaveFailure) /\ [][C9_LoadFailure]_vars

\* a default location is served from memory while the file is unreadable
C9_Witness ==
  \E u \in Users :
    /\ out.to = u
    /\ out.msgs = <<"default_city_set", "main_menu">>
    /\ HasDefault(user_data_storage, u)
    /\ file = CorruptFile

-----------------------------------------------------------------------------
(* C10: an error raised while an update is handled is answered with a       *)
(* generic failure message                                                   *)
C10_GenericFailureReply ==
  out.raised =>
    (out.msgs # <<>> /\ out.msgs[Len(out.msgs)] = "generic_failure")

-----------------------------------------------------------------------------
(* C11: no update is lost.  Updates are handled one at a time and each      *)
(* mutating call changes the store and saves it without yielding, so every  *)
(* step keeps what the store held (every history as a prefix, every default *)
(* location it does not set itself), holds its own effect afterwards, and   *)
(* the file read back equals the store.  As claimed: after every mutating   *)
(* step, whatever the outcome of its save                                   *)
EffectsOf(u, raw, env) ==
  IF Handler(raw) = "unified_handler"
    THEN unified_handler(user_data[u], user_data_storage, u, raw, env, now)
    ELSE <<>>

Sets(ops) == {i \in DOMAIN ops : ops[i].op = "set_default_city"}
Appends(ops) == {i \in DOMAIN ops : ops[i].op = "add_to_history"}

\* the store after the step holds what it held and the effect of the step
StoreHoldsEveryEffect(u, ops, st) ==
  /\ \A v \in Users :
       /\ IsPrefix(History(user_data_storage, v), History(st.storage, v))
       /\ (v # u \/ Sets(ops) = {}) =>
            get_default_city(st.storage, v) = get_default_city(user_data_storage, v)
  /\ \A i \in Sets(ops) : get_default_city(st.storage, u) = ops[i].city
  /\ \A i \in Appends(ops) :
       LET h == History(st.storage, u)
       IN  /\ h # <<>>
           /\ h[Len(h)] = WeatherEvent(ops[i].city, ops[i].temp, ops[i].desc, now)

FileHoldsStore(st) ==
  /\ st.file.exists /\ st.file.valid
  /\ load_persistent_data(EmptyDict, st.file) = st.storage

-----------------------------------------------------------------------------
(* C12: sessions are independent.  The step that handles a message of user  *)
(* A, in any state and with any provider outcome, leaves the state tag, the *)
(* pending location, the default location and the history of every other   *)
(* user B as they were                                                       *)
C12_SessionsIndependent ==
  [][(pc = "polling" /\ update_id' # update_id) =>
       \A b \in Users \ {out'.to} :
         /\ StateOf(user_data'[b]) = StateOf(user_data[b])
         /\ PendingOf(user_data'[b]) = PendingOf(user_data[b])
         /\ get_default_city(user_data_storage', b) = get_default_city(user_data_storage, b)
         /\ History(user_data_storage', b) = History(user_data_storage, b)
    ]_vars

\* the second user has been answered while the first is choosing the kind
\* of weather for a pending location and has a default location and a history
C12_Witness ==
  /\ out.to = 2
  /\ out.msgs # <<>>
  /\ SpecState(user_data[1]) = "ChoosingWeatherType"
  /\ PendingOf(user_data[1]) = "Paris"
  /\ HasDefault(user_data_storage, 1)
  /\ History(user_data_storage, 1) # <<>>

-----------------------------------------------------------------------------
(* C13: get_yesterday_weather returns None when the history of the user is  *)
(* empty or holds no entry with exactly the given location and with the     *)
(* date before the current date; otherwise it returns the last appended of  *)
(* the matching entries, also when several match                            *)
MatchesOfYesterday(h, city, clock) ==
  {i \in 1..Len(h) : h[i].city = city /\ DateOf(h[i].timestamp) = DateOf(clock) - 1}

C13_FindYesterday ==
  (call.fn = "get_yesterday_weather" /\ call.returned) =>
    LET h == History(user_data_storage, call.user_id)
        m == MatchesOfYesterday(h, call.city, now)
    IN  IF m = {} THEN call.ret = NoneRecord
        ELSE call.ret = h[CHOOSE i \in m : \A j \in m : j <= i]

\* two different entries of the history match and the later one is returned
C13_Witness ==
  /\ call.fn = "get_yesterday_weather"
  /\ call.returned
  /\ call.ret # NoneRecord
  /\ LET h == History(user_data_storage, call.user_id)
         m == MatchesOfYesterday(h, call.city, now)
     IN  \E i, j \in m : i < j /\ h[i] # h[j] /\ call.ret = h[j]

-----------------------------------------------------------------------------
(* C14: for a time-ordered entry list, the list get_5_day_forecast returns  *)
(* has no two entries of one calendar date, has at most 5 entries, is in    *)
(* chronological order, and holds for each day the temperature and the      *)
(* description of the first entry of the provider for that day              *)
EntriesOfDate(list, date) == {i \in 1..Len(list) : DateOf(list[i].dt) = date}

C14_Forecast ==
  (call.fn = "get_5_day_forecast" /\ call.returned /\ ~call.ret.none) =>
    LET days == call.ret.days
        list == call.fc.list
    IN  /\ Len(days) <= 5
        /\ \A i, j \in 1..Len(days) : i < j => days[i].date < days[j].date
        /\ \A k \in 1..Len(days) :
             LET e == EntriesOfDate(list, days[k].date)
             IN  /\ e # {}
                 /\ LET first == CHOOSE i \in e : \A j \in e : i <= j
                    IN  /\ days[k].temp = list[first].temp
                        /\ days[k].desc = list[first].desc

\* five days are returned of a list that has two entries for one of them
\* and an entry for a sixth day
C14_Witness ==
  /\ call.fn = "get_5_day_forecast"
  /\ call.returned
  /\ Len(call.ret.days) = 5
  /\ \E k \in 1..5 : Cardinality(EntriesOfDate(call.fc.list, call.ret.days[k].date)) >= 2
  /\ \E i \in 1..Len(call.fc.list) :
       \A k \in 1..5 : call.ret.days[k].date # DateOf(call.fc.list[i].dt)

-----------------------------------------------------------------------------
(* C15: the advice of format_now_message holds exactly one sentence about   *)
(* the temperature t, chosen with closed lower boundaries: light clothing   *)
(* for t >= 25, light jacket for 15 <= t < 25, jacket or coat for           *)
(* 5 <= t < 15, warm coat for -5 <= t < 5, severe cold for t < -5           *)
TemperatureAdvice ==
  {ADVICE_LIGHT_CLOTHING, ADVICE_LIGHT_JACKET, ADVICE_JACKET_OR_COAT,
   ADVICE_WARM_COAT, ADVICE_SEVERE_COLD}

C15_AdviceBoundaries ==
  (call.fn = "format_now_message" /\ call.returned) =>
    LET t == call.data.temp
        a == call.ret.advice
        about == {i \in 1..Len(a) : a[i] \in TemperatureAdvice}
    IN  /\ Cardinality(about) = 1
        /\ \A i \in about :
             /\ a[i] = ADVICE_LIGHT_CLOTHING <=> t >= 25
             /\ a[i] = ADVICE_LIGHT_JACKET <=> (15 <= t /\ t < 25)
             /\ a[i] = ADVICE_JACKET_OR_COAT <=> (5 <= t /\ t < 15)
             /\ a[i] = ADVICE_WARM_COAT <=> (-5 <= t /\ t < 5)
             /\ a[i] = ADVICE_SEVERE_COLD <=> t < -5

\* a reading of exactly -5 degrees with rain is advised the warm coat, and
\* the umbrella besides
C15_Witness ==
  /\ call.fn = "format_now_message"
  /\ call.returned
  /\ call.data.temp = -5
  /\ call.ret.advice = <<ADVICE_WARM_COAT, ADVICE_UMBRELLA>>

-----------------------------------------------------------------------------
(* C16: in AwaitingCityForLookup every text that reaches the state handler  *)
(* is validated by the fetch: when nothing is found the not-found message   *)
(* is sent, the state stays AwaitingCityForLookup, no pending location is   *)
(* set and the store is unchanged; when a reading is found the state        *)
(* becomes ChoosingWeatherType with the text as pending location.  No       *)
(* input but "/start" leads from AwaitingCityForLookup to Idle              *)
C16_LookupValidation ==
  pc = "polling" =>
    \A u \in Users :
      SpecState(user_data[u]) = "AwaitingCityForLookup" =>
        \A raw \in RawTexts : \A env \in Env(user_data[u], raw) :
          LET st == process_update(u, raw, env)
              text == strip(raw)
          IN  /\ raw \in PlainTexts =>
                   IF Found(text, env.r1)
                     THEN /\ SpecState(st.ud) = "ChoosingWeatherType"
                          /\ PendingOf(st.ud) = text
                     ELSE /\ st.msgs = <<"city_not_found">>
                          /\ SpecState(st.ud) = "AwaitingCityForLookup"
                          /\ PendingOf(st.ud) = None
                          /\ st.storage = user_data_storage
              /\ SpecState(st.ud) = "Idle" => text = "/start"

\* a location that is not found has been answered and the session still
\* waits for a location
C16_Witness ==
  \E u \in Users :
    /\ out.to = u
    /\ out.msgs = <<"city_not_found">>
    /\ SpecState(user_data[u]) = "AwaitingCityForLookup"
    /\ PendingOf(user_data[u]) = None

-----------------------------------------------------------------------------
(* C17: in AwaitingCityForSet every text that reaches the state handler     *)
(* leads to Idle, whatever the fetch yields; the default location of the    *)
(* user becomes the text when the fetch yields a reading and stays as it    *)
(* was when it does not.  The default location of a user changes in no      *)
(* other step of the running bot, and once set it is never unset            *)
C17_SetDefault ==
  pc = "polling" =>
    \A u \in Users :
      SpecState(user_data[u]) = "AwaitingCityForSet" =>
        \A raw \in PlainTexts : \A env \in Env(user_data[u], raw) :
          LET st == process_update(u, raw, env)
          IN  /\ SpecState(st.ud) = "Idle"
              /\ get_default_city(st.storage, u) =
                   IF Found(strip(raw), env.r1) THEN strip(raw)
                   ELSE get_default_city(user_data_storage, u)

C17_OnlyThere ==
  pc = "polling" =>
    \A u \in Users :
      /\ get_default_city(user_data_storage', u) # get_default_city(user_data_storage, u) =>
           /\ SpecState(user_data[u]) = "AwaitingCityForSet"
           /\ out'.to = u
           /\ out'.msgs = <<"default_city_set", "main_menu">>
      /\ HasDefault(user_data_storage, u) => HasDefault(user_data_storage', u)

C17_DefaultLocation == [](C17_SetDefault) /\ [][C17_OnlyThere]_vars

\* a location that is not found has been refused as default location: the
\* user is back in Idle and has the default location of before
C17_Witness ==
  /\ out.to = 1
  /\ out.msgs = <<"city_not_found", "main_menu">>
  /\ SpecState(user_data[1]) = "Idle"
  /\ get_default_city(user_data_storage, 1) = "Paris"

-----------------------------------------------------------------------------
(* C18: in ChoosingWeatherType the inputs "now", "yesterday" and "5-day"    *)
(* end in Idle with the session cleared and the main menu shown, whether    *)
(* the fetch or the archive lookup succeeded or failed, and a failed "now"  *)
(* fetch appends nothing to any history; every other text that reaches the  *)
(* state handler, "back" excepted, is answered by the reprompt and leaves   *)
(* the state ChoosingWeatherType and the pending location as they were      *)
C18_WeatherTypeOutcomes ==
  pc = "polling" =>
    \A u \in Users :
      SpecState(user_data[u]) = "ChoosingWeatherType" =>
        \A raw \in PlainTexts : \A env \in Env(user_data[u], raw) :
          LET st == process_update(u, raw, env)
              text == strip(raw)
          IN  /\ text \in {BTN_NOW, BTN_YESTERDAY, BTN_5_DAYS} =>
                   /\ Cleared(st.ud)
                   /\ Len(st.msgs) = 2 /\ st.msgs[2] = "main_menu"
              /\ (text = BTN_NOW /\ ~Found(PendingOf(user_data[u]), env.r1)) =>
                   /\ st.msgs[1] = "now_failed"
                   /\ \A v \in Users :
                        History(st.storage, v) = History(user_data_storage, v)
              /\ text \notin {BTN_NOW, BTN_YESTERDAY, BTN_5_DAYS, BTN_BACK} =>
                   /\ st.msgs = <<"choose_from_menu">>
                   /\ SpecState(st.ud) = "ChoosingWeatherType"
                   /\ PendingOf(st.ud) = PendingOf(user_data[u])

\* the fetch of "now" has failed: the user is told so and is back in Idle
C18_Witness ==
  \E u \in Users :
    /\ out.to = u
    /\ out.msgs = <<"now_failed", "main_menu">>
    /\ Cleared(user_data[u])

-----------------------------------------------------------------------------
(* C19: in every reachable state, also after a handler has been left by an  *)
(* exception, the session of a user holds a non-empty pending location if   *)
(* and only if its state is ChoosingWeatherType; so no pending location     *)
(* survives into Idle or any other state, and the "location not set" reply  *)
(* of ChoosingWeatherType is never sent                                     *)
C19_PendingIffChoosingType ==
  /\ \A u \in Users :
       /\ Truthy(PendingOf(user_data[u])) <=> SpecState(user_data[u]) = "ChoosingWeatherType"
       /\ SpecState(user_data[u]) # "ChoosingWeatherType" =>
            "temp_city" \notin DOMAIN user_data[u]
  /\ \A i \in 1..Len(out.msgs) : out.msgs[i] # "city_not_given"

\* the reply of send_weather_menu has raised: the session is in
\* ChoosingWeatherType and holds the pending location
C19_Witness ==
  \E u \in Users :
    /\ out.to = u
    /\ out.raised
    /\ out.msgs = <<>>
    /\ SpecState(user_data[u]) = "ChoosingWeatherType"
    /\ PendingOf(user_data[u]) = "Oslo"

-----------------------------------------------------------------------------
(* C20: in every reachable state, also after a handler has been left by an  *)
(* exception, a user whose session is in ChoosingCitySource has a default   *)
(* location in the store; so the input "default location" leads from there  *)
(* to ChoosingWeatherType with the default location pending, and the        *)
(* "default not set" reply is never sent                                    *)
C20_SourceHasDefault ==
  /\ \A u \in Users :
       SpecState(user_data[u]) = "ChoosingCitySource" =>
         /\ HasDefault(user_data_storage, u)
         /\ \A env \in Env(user_data[u], BTN_DEFAULT_CITY) :
              LET st == process_update(u, BTN_DEFAULT_CITY, env)
              IN  /\ SpecState(st.ud) = "ChoosingWeatherType"
                  /\ PendingOf(st.ud) = get_default_city(user_data_storage, u)
                  /\ st.msgs = <<"weather_menu">>
  /\ \A i \in 1..Len(out.msgs) : out.msgs[i] # "default_city_not_set"

\* the default location has been chosen as the source and is pending
C20_Witness ==
  \E u \in Users :
    /\ out.to = u
    /\ out.msgs = <<"weather_menu">>
    /\ SpecState(user_data[u]) = "ChoosingWeatherType"
    /\ HasDefault(user_data_storage, u)
    /\ PendingOf(user_data[u]) = get_default_city(user_data_storage, u)
    /\ History(user_data_storage, u) = <<>>

====
